---- MODULE Spec2Model ----
(***************************************************************************)
(* Model of optimade/validator/validator.py: the HTTP client with its     *)
(* retry loop, the test_case wrapper, and ImplementationValidator.main()  *)
(* with the four pipeline stages, driven by the __main__ block.           *)
(*                                                                         *)
(* The remote server and the pydantic schemas are the environment: a      *)
(* response body is described by the response class it validates against, *)
(* the shape of its raw JSON, and the fields the validator reads.         *)
(***************************************************************************)
EXTENDS Integers, Sequences, FiniteSets, TLC

VARIABLES
    pc,                   \* position of the __main__ block / main()
    todo,                 \* entry types the current for loop has yet to visit
    test_entry_endpoints, \* self.test_entry_endpoints
    test_id_by_type,      \* self.test_id_by_type
    valid,                \* self.valid: "None", "True" or "False"
    success_count,        \* self.success_count
    failure_count,        \* self.failure_count
    base_info,            \* local base_info of main()
    fault,                \* exception that escaped main(), or "none"
    fault_at,             \* [stage, type] main() was in when it escaped
    exit_code,            \* status passed to the shell, -1 while running
    server,               \* the documents the server has served, by path
    requests,             \* the GET requests issued so far, each with its stage
    last_get,             \* the Client.get call under test: its script and result
    last_steps,           \* the wrapped steps the last statement of main() called
    wrapped_calls,        \* wrapped step calls the wrapper has returned from
    last_call,            \* the test_case call under test: its step and result
    run_log               \* the results of the runs of __main__ that are over

vars == <<pc, todo, test_entry_endpoints, test_id_by_type, valid, success_count,
          failure_count, base_info, fault, fault_at, exit_code, server, requests,
          last_get, last_steps, wrapped_calls, last_call, run_log>>

-----------------------------------------------------------------------------
(* Bounds of the environment *)

\* most 429 answers the server gives to one request before its real answer
MaxThrottle == 6

\* largest value a counter holds when a wrapped step is called on its own
MaxCount == 3

(* Program constants *)

MAX_RETRIES == 5

BASE_INFO_ENDPOINT == "info"

REQUIRED_ENTRY_ENDPOINTS == {"structures"}

\* request strings are kept as their '/'-separated segments:
\* "info" is <<"info">>, "info/structures" is <<"info", "structures">>,
\* and the key "structures/" is <<"structures", "">>
RESPONSE_CLASSES ==
    [p \in {<<"structures">>, <<"structures", "">>,
            <<"calculations">>, <<"calculations", "">>,
            <<"info">>, <<"info", "structures">>} |->
        CASE p = <<"structures">>        -> "StructureResponseMany"
          [] p = <<"structures", "">>    -> "StructureResponseOne"
          [] p = <<"calculations">>      -> "StructureResponseMany"
          [] p = <<"calculations", "">>  -> "StructureResponseOne"
          [] p = <<"info">>              -> "InfoResponse"
          [] p = <<"info", "structures">> -> "EntryInfoResponse"]

-----------------------------------------------------------------------------
(* The environment: entry types a server may advertise, and its documents *)

\* entry types a base info document may list
TypeNames == {"structures", "calculations", "info", "references"}

\* the type the entries of a listing carry (whatever endpoint lists them)
EntryTypeNames == {"structures", "calculations"}

\* ids an entry may carry: the schema asks for a string, the empty one included
Ids == {"abc", ""}

\* the data array of a listing: entries of one type, no id listed twice
IdSeqs == {q \in UNION {[1..n -> Ids] : n \in 0..Cardinality(Ids)} :
              \A i, j \in 1..Len(q) : q[i] = q[j] => i = j}

DataSeqs == {[i \in 1..Len(q) |-> [type |-> u, id |-> q[i]]] :
                u \in EntryTypeNames, q \in IdSeqs}

NoBody == [conforms |-> "none", raw |-> "nobody", hasjson |-> FALSE,
           types |-> {}, data |-> <<>>]

\* base info documents: valid against InfoResponse (with or without a "json"
\* format), or invalid: with the entry types still in place, with keys
\* missing, a null in place of the list, an empty JSON body, or no JSON at all
InfoBodies ==
    {[conforms |-> "InfoResponse", raw |-> "full", hasjson |-> TRUE,
      types |-> L, data |-> <<>>] : L \in SUBSET TypeNames}
    \cup {[conforms |-> "InfoResponse", raw |-> "full", hasjson |-> FALSE,
           types |-> {}, data |-> <<>>]}
    \cup {[conforms |-> "none", raw |-> "full", hasjson |-> TRUE,
           types |-> L, data |-> <<>>] : L \in SUBSET TypeNames}
    \cup {[conforms |-> "none", raw |-> r, hasjson |-> FALSE,
           types |-> {}, data |-> <<>>] :
              r \in {"nokeys", "nulljson", "empty", "notjson"}}

EntryInfoBodies ==
    {[conforms |-> c, raw |-> "full", hasjson |-> FALSE, types |-> {},
      data |-> <<>>] : c \in {"EntryInfoResponse", "none"}}
    \cup {[conforms |-> "none", raw |-> "notjson", hasjson |-> FALSE,
           types |-> {}, data |-> <<>>]}

ListingBodies ==
    {[conforms |-> "StructureResponseMany", raw |-> "full", hasjson |-> FALSE,
      types |-> {}, data |-> d] : d \in DataSeqs}
    \cup {[conforms |-> "none", raw |-> r, hasjson |-> FALSE, types |-> {},
           data |-> <<>>] : r \in {"full", "notjson"}}

Paths == {<<BASE_INFO_ENDPOINT>>}
         \cup {<<BASE_INFO_ENDPOINT, t>> : t \in TypeNames}
         \cup {<<t>> : t \in TypeNames}

\* the body of a 200 answer the validator never reads: the lookup of its
\* request string in RESPONSE_CLASSES fails first
UnreadBody == [conforms |-> "none", raw |-> "unread", hasjson |-> FALSE,
               types |-> {}, data |-> <<>>]

BodiesFor(path) ==
    IF path \notin DOMAIN RESPONSE_CLASSES THEN {UnreadBody}
    ELSE IF path = <<BASE_INFO_ENDPOINT>> THEN InfoBodies
    ELSE IF Len(path) = 2 THEN EntryInfoBodies
    ELSE ListingBodies

Unset == [status |-> 0, body |-> NoBody]

\* a path the server rate-limits beyond every retry, and one it cannot be
\* reached on
Limited == [status |-> 429, body |-> NoBody]

Down == [status |-> -1, body |-> NoBody]

\* what the server may answer on `path`: a deterministic server repeats the
\* document it has already served there
ResponsesFor(path) ==
    IF server[path] # Unset THEN {server[path]}
    ELSE {[status |-> 200, body |-> b] : b \in BodiesFor(path)}
         \cup {[status |-> 500, body |-> NoBody]}

-----------------------------------------------------------------------------
(* Python values the validator passes around *)

FalseVal == [tag |-> "False", body |-> NoBody]

ResponseVal(b) == [tag |-> "Response", body |-> b]

ModelVal(b) == [tag |-> "Model", body |-> b]

Truthy(v) == v.tag # "False"

Raise(e) == [kind |-> "raise", exc |-> e, value |-> FalseVal, truthy |-> FALSE]

Return(v, t) == [kind |-> "return", exc |-> "none", value |-> v, truthy |-> t]

-----------------------------------------------------------------------------
(* Client.get: the retry loop.  The server answers `throttle` times 429 and  *)
(* then `status`; with `raises` the request that would receive `status`      *)
(* fails in requests.get instead.                                            *)

\* the loop with its bound off by one: while retries <= MAX_RETRIES
RECURSIVE get_loop_one_more(_, _, _, _, _)
get_loop_one_more(retries, sleeps, throttle, raises, status) ==
    IF retries <= MAX_RETRIES
    THEN LET r == retries + 1 IN
         IF r > throttle /\ raises
         THEN [kind |-> "raise", exc |-> "RequestException", attempts |-> r,
               sleeps |-> sleeps, status |-> 0]
         ELSE IF (IF r <= throttle THEN 429 ELSE status) # 429
         THEN [kind |-> "return", exc |-> "none", attempts |-> r,
               sleeps |-> sleeps, status |-> status]
         ELSE get_loop_one_more(r, sleeps + 1, throttle, raises, status)
    ELSE [kind |-> "raise", exc |-> "ResponseError", attempts |-> retries,
          sleeps |-> sleeps, status |-> 429]

RECURSIVE get_loop(_, _, _, _, _)
get_loop(retries, sleeps, throttle, raises, status) ==
    IF retries < MAX_RETRIES
    THEN LET r == retries + 1 IN
         IF r > throttle /\ raises
         THEN [kind |-> "raise", exc |-> "RequestException", attempts |-> r,
               sleeps |-> sleeps, status |-> 0]
         ELSE IF (IF r <= throttle THEN 429 ELSE status) # 429
         THEN [kind |-> "return", exc |-> "none", attempts |-> r,
               sleeps |-> sleeps, status |-> status]
         ELSE get_loop(r, sleeps + 1, throttle, raises, status)
    ELSE [kind |-> "raise", exc |-> "ResponseError", attempts |-> retries,
          sleeps |-> sleeps, status |-> 429]

Client_get(throttle, raises, status) == get_loop(0, 0, throttle, raises, status)

\* the rate limiting main() is run against: none, the most Client.get rides
\* out, and the least that exhausts it (the counts in between change the
\* attempts and sleeps of Client.get, not what it hands to its caller)
Throttles == {0, MAX_RETRIES - 1, MAX_RETRIES}

-----------------------------------------------------------------------------
(* test_case: the wrapper around every test step.  `out` is what the step   *)
(* did: returned (value, msg) or raised.                                     *)

RecognizedErrors == {"ResponseError", "ValidationError", "ManualValidationError"}

\* a wrapper that counts a failure only when the step raised
test_case_uncounted_false(out) ==
    IF out.kind = "raise" /\ out.exc \notin RecognizedErrors
    THEN [result |-> FalseVal, ds |-> 0, df |-> 0, fault |-> out.exc]
    ELSE [result |-> IF out.kind = "return" THEN out.value ELSE FalseVal,
          ds |-> IF out.kind = "return" /\ out.truthy THEN 1 ELSE 0,
          df |-> IF out.kind = "raise" THEN 1 ELSE 0,
          fault |-> "none"]

\* a catch-all wrapper: except Exception
test_case_catch_all(out) ==
    LET ok == out.kind = "return" /\ out.truthy IN
    [result |-> IF out.kind = "return" THEN out.value ELSE FalseVal,
     ds |-> IF ok THEN 1 ELSE 0,
     df |-> IF ok THEN 0 ELSE 1,
     fault |-> "none"]

test_case(out) ==
    IF out.kind = "raise" /\ out.exc \notin RecognizedErrors
    THEN [result |-> FalseVal, ds |-> 0, df |-> 0, fault |-> out.exc]
    ELSE LET ok == out.kind = "return" /\ out.truthy IN
         [result |-> IF out.kind = "return" THEN out.value ELSE FalseVal,
          ds |-> IF ok THEN 1 ELSE 0,
          df |-> IF ok THEN 0 ELSE 1,
          fault |-> "none"]

-----------------------------------------------------------------------------
(* The wrapped test steps *)

\* get_endpoint, given what Client.get did (g) and the body the server sent
get_endpoint(g, body) ==
    test_case(IF g.kind = "raise" THEN Raise(g.exc)
              ELSE IF g.status # 200 THEN Raise("ResponseError")
              ELSE Return(ResponseVal(body), TRUE))

serialize_attempt(response, response_cls) ==
    test_case(IF ~Truthy(response) THEN Raise("ResponseError")
              ELSE IF response.body.raw = "notjson" THEN Raise("JSONDecodeError")
              ELSE IF response.body.conforms = response_cls
              THEN Return(ModelVal(response.body), TRUE)
              ELSE Raise("ValidationError"))

\* the entry types get_available_endpoints extracts: found, or the exception
\* that ends the extraction
available_json_entry_endpoints(info) ==
    IF info.tag = "Model"
    THEN IF info.body.hasjson
         THEN [found |-> TRUE, exc |-> "none", list |-> info.body.types]
         ELSE [found |-> FALSE, exc |-> "TypeError", list |-> {}]
    ELSE IF info.tag = "False"
    THEN [found |-> FALSE, exc |-> "AttributeError", list |-> {}]
    ELSE IF info.body.raw = "empty"
    THEN [found |-> FALSE, exc |-> "ResponseError", list |-> {}]
    ELSE IF info.body.raw = "nulljson"
    THEN [found |-> FALSE, exc |-> "TypeError", list |-> {}]
    ELSE IF info.body.raw = "full" /\ info.body.hasjson
    THEN [found |-> TRUE, exc |-> "none", list |-> info.body.types]
    ELSE [found |-> FALSE, exc |-> "ResponseError", list |-> {}]

\* the discovered list assigned to the working set instead of united with it
endpoints_after_assigned(info, endpoints) ==
    LET a == available_json_entry_endpoints(info) IN
    IF a.found THEN a.list ELSE endpoints

\* self.test_entry_endpoints after get_available_endpoints
endpoints_after(info, endpoints) ==
    LET a == available_json_entry_endpoints(info) IN
    IF a.found THEN endpoints \cup a.list ELSE endpoints

get_available_endpoints(info, endpoints) ==
    LET a == available_json_entry_endpoints(info) IN
    test_case(IF ~a.found THEN Raise(a.exc)
              ELSE IF "info" \in endpoints_after(info, endpoints)
              THEN Raise("ResponseError")
              ELSE Return(FalseVal, a.list # {}))

\* the key get_single_id_from_multi_endpoint registers the scraped id under
scraped_type(serialized) == serialized.body.data[1].type

scraped_id(serialized) == serialized.body.data[1].id

\* the step returns the registered id, and the wrapper takes its truth value
get_single_id_from_multi_endpoint(serialized) ==
    test_case(IF ~Truthy(serialized) THEN Raise("ResponseError")
              ELSE IF serialized.body.conforms # "StructureResponseMany"
              THEN Raise("TypeError")
              ELSE IF Len(serialized.body.data) > 0
              THEN Return(serialized, scraped_id(serialized) # "")
              ELSE Raise("ResponseError"))

\* self.test_id_by_type after get_single_id_from_multi_endpoint
test_id_after(serialized, registry) ==
    IF /\ Truthy(serialized)
       /\ serialized.body.conforms = "StructureResponseMany"
       /\ Len(serialized.body.data) > 0
    THEN (scraped_type(serialized) :> scraped_id(serialized)) @@ registry
    ELSE registry

-----------------------------------------------------------------------------
(* Unwrapped helpers of ImplementationValidator: each yields the value it   *)
(* returns, the wrapped steps it called in order (what the wrapper did with *)
(* each), their counter increments, and the exception that escaped it.      *)

\* one call of a wrapped step: w is what test_case made of it
Step(name, w) == [name |-> name, ds |-> w.ds, df |-> w.df, fault |-> w.fault]

RECURSIVE SumDs(_)
SumDs(steps) == IF steps = <<>> THEN 0 ELSE Head(steps).ds + SumDs(Tail(steps))

RECURSIVE SumDf(_)
SumDf(steps) == IF steps = <<>> THEN 0 ELSE Head(steps).df + SumDf(Tail(steps))

Outcome(ret, steps, exc) ==
    [ret |-> ret, steps |-> steps, ds |-> SumDs(steps), df |-> SumDf(steps),
     fault |-> exc]

Escaped(e, steps) == Outcome(FalseVal, steps, e)

test_info_endpoints(request_str, g, body) ==
    LET response == get_endpoint(g, body)
        s1 == <<Step("get_endpoint", response)>>
    IN
    IF response.fault # "none" THEN Escaped(response.fault, s1)
    ELSE IF ~Truthy(response.result) THEN Outcome(FalseVal, s1, "none")
    ELSE IF request_str \notin DOMAIN RESPONSE_CLASSES
    THEN Escaped("KeyError", s1)
    ELSE LET serialized == serialize_attempt(response.result,
                                             RESPONSE_CLASSES[request_str])
             s2 == Append(s1, Step("serialize_attempt", serialized))
         IN
         IF serialized.fault # "none" THEN Escaped(serialized.fault, s2)
         ELSE Outcome(IF Truthy(serialized.result) THEN serialized.result
                      ELSE response.result, s2, "none")

test_multi_entry_endpoint(request_str, g, body) ==
    LET response == get_endpoint(g, body)
        s1 == <<Step("get_endpoint", response)>>
    IN
    IF response.fault # "none" THEN Escaped(response.fault, s1)
    ELSE IF request_str \notin DOMAIN RESPONSE_CLASSES
    THEN Escaped("KeyError", s1)
    ELSE LET serialized == serialize_attempt(response.result,
                                             RESPONSE_CLASSES[request_str])
             s2 == Append(s1, Step("serialize_attempt", serialized))
         IN
         IF serialized.fault # "none" THEN Escaped(serialized.fault, s2)
         ELSE LET scraped == get_single_id_from_multi_endpoint(serialized.result)
                  s3 == Append(s2, Step("get_single_id_from_multi_endpoint",
                                        scraped))
              IN
              IF scraped.fault # "none" THEN Escaped(scraped.fault, s3)
              ELSE Outcome(serialized.result, s3, "none")

\* a type without a registered id reported as a failed request, not skipped
test_single_entry_endpoint_failed(type, registry) ==
    IF type \in DOMAIN registry
    THEN Escaped("NameError", <<>>)
    ELSE Outcome(FalseVal, <<Step("get_endpoint", test_case(Raise("ResponseError")))>>,
                 "none")

\* test_single_entry_endpoint: the request string is built from the name
\* test_id, which is bound nowhere, so building it raises NameError
test_single_entry_endpoint(type, registry) ==
    IF type \in DOMAIN registry
    THEN Escaped("NameError", <<>>)
    ELSE Outcome(FalseVal, <<>>, "none")

-----------------------------------------------------------------------------
(* State after ImplementationValidator(base_url=...) in the __main__ block *)

NoGet == [throttle |-> 0, raises |-> FALSE, status |-> 0,
          result |-> [kind |-> "none", exc |-> "none", attempts |-> 0,
                      sleeps |-> 0, status |-> 0]]

NoWhere == [stage |-> "none", type |-> "none"]

NoCall == [out |-> Raise("none"), result |-> FalseVal]

Init ==
    /\ pc = "base_info"
    /\ todo = {}
    /\ test_entry_endpoints = REQUIRED_ENTRY_ENDPOINTS
    /\ test_id_by_type = <<>>
    /\ valid = "None"
    /\ success_count = 0
    /\ failure_count = 0
    /\ base_info = FalseVal
    /\ fault = "none"
    /\ fault_at = NoWhere
    /\ exit_code = -1
    /\ server = [p \in Paths |-> Unset]
    /\ requests = {}
    /\ last_get = NoGet
    /\ last_steps = <<>>
    /\ wrapped_calls = 0
    /\ last_call = NoCall
    /\ run_log = <<>>

-----------------------------------------------------------------------------
(* Steps shared by the actions *)

\* self.client.get(request): the request goes out, the server answers
Issue(stage, path, throttle, raises, resp) ==
    LET g == Client_get(throttle, raises, resp.status) IN
    /\ requests' = requests \cup {[stage |-> stage, path |-> path]}
    /\ server[path] = Down => raises
    /\ server[path] \notin {Unset, Down} => ~raises
    /\ server[path] \notin {Unset, Limited} => throttle < MAX_RETRIES
    /\ server' = [server EXCEPT ![path] =
                     IF g.kind = "return" THEN resp
                     ELSE IF g.exc = "ResponseError" THEN Limited ELSE Down]
    /\ UNCHANGED <<last_get, last_call, run_log>>

\* the wrapper's calls among `steps` that returned to their caller
Returned(steps) == Cardinality({i \in 1..Len(steps) : steps[i].fault = "none"})

\* the counters after the wrapped steps of one statement of main()
Count(r) ==
    /\ success_count' = success_count + r.ds
    /\ failure_count' = failure_count + r.df
    /\ last_steps' = r.steps
    /\ wrapped_calls' = wrapped_calls + Returned(r.steps)

\* an exception leaves main() and reaches the except clause of __main__
Abort(e, stage, type) ==
    /\ pc' = "aborted"
    /\ fault' = e
    /\ fault_at' = [stage |-> stage, type |-> type]
    /\ todo' = {}

\* the multi-entry and single-entry loops in each other's place
Iterate_swapped(type, after) ==
    /\ UNCHANGED <<fault, fault_at>>
    /\ IF todo = {type}
       THEN /\ pc' = (CASE after = "multi" -> "single"
                        [] after = "set_valid" -> "multi"
                        [] after = "single" -> "set_valid")
            /\ todo' = IF after = "single" THEN {} ELSE test_entry_endpoints
       ELSE /\ pc' = pc
            /\ todo' = todo \ {type}

\* one iteration of a for loop over self.test_entry_endpoints is over
Iterate(type, after) ==
    /\ UNCHANGED <<fault, fault_at>>
    /\ IF todo = {type}
       THEN /\ pc' = after
            /\ todo' = IF after = "set_valid" THEN {} ELSE test_entry_endpoints
       ELSE /\ pc' = pc
            /\ todo' = todo \ {type}

-----------------------------------------------------------------------------
(* main() *)

\* base_info = self.test_info_endpoints(BASE_INFO_ENDPOINT)
TestBaseInfo ==
    /\ pc = "base_info"
    /\ \E throttle \in Throttles, raises \in BOOLEAN,
          resp \in ResponsesFor(<<BASE_INFO_ENDPOINT>>) :
         LET g == Client_get(throttle, raises, resp.status)
             r == test_info_endpoints(<<BASE_INFO_ENDPOINT>>, g, resp.body)
         IN /\ Issue("base_info", <<BASE_INFO_ENDPOINT>>, throttle, raises, resp)
            /\ Count(r)
            /\ IF r.fault # "none"
               THEN Abort(r.fault, "base_info", "none") /\ UNCHANGED base_info
               ELSE /\ base_info' = r.ret
                    /\ pc' = "available"
                    /\ UNCHANGED <<todo, fault, fault_at>>
    /\ UNCHANGED <<test_entry_endpoints, test_id_by_type, valid, exit_code>>

\* self.get_available_endpoints(base_info)
GetAvailableEndpoints ==
    /\ pc = "available"
    /\ LET w == get_available_endpoints(base_info, test_entry_endpoints)
           r == Outcome(FalseVal, <<Step("get_available_endpoints", w)>>, w.fault)
       IN
       /\ test_entry_endpoints' = endpoints_after(base_info, test_entry_endpoints)
       /\ Count(r)
       /\ IF r.fault # "none"
          THEN Abort(r.fault, "available", "none")
          ELSE /\ pc' = "entry_info"
               /\ todo' = test_entry_endpoints'
               /\ UNCHANGED <<fault, fault_at>>
    /\ UNCHANGED <<test_id_by_type, valid, base_info, exit_code, server, requests,
                   last_get, last_call, run_log>>

\* for endp in self.test_entry_endpoints: self.test_info_endpoints("info/" + endp)
TestEntryInfo(endp) ==
    /\ pc = "entry_info"
    /\ endp \in todo
    /\ \E throttle \in Throttles, raises \in BOOLEAN,
          resp \in ResponsesFor(<<BASE_INFO_ENDPOINT, endp>>) :
         LET g == Client_get(throttle, raises, resp.status)
             r == test_info_endpoints(<<BASE_INFO_ENDPOINT, endp>>, g, resp.body)
         IN /\ Issue("entry_info", <<BASE_INFO_ENDPOINT, endp>>, throttle, raises, resp)
            /\ Count(r)
            /\ IF r.fault # "none"
               THEN Abort(r.fault, "entry_info", endp)
               ELSE Iterate(endp, "multi")
    /\ UNCHANGED <<test_entry_endpoints, test_id_by_type, valid, base_info, exit_code>>

\* for endp in self.test_entry_endpoints: self.test_multi_entry_endpoint(endp)
TestMultiEntry(endp) ==
    /\ pc = "multi"
    /\ endp \in todo
    /\ \E throttle \in Throttles, raises \in BOOLEAN,
          resp \in ResponsesFor(<<endp>>) :
         LET g == Client_get(throttle, raises, resp.status)
             r == test_multi_entry_endpoint(<<endp>>, g, resp.body)
         IN /\ Issue("multi", <<endp>>, throttle, raises, resp)
            /\ Count(r)
            /\ test_id_by_type' = test_id_after(r.ret, test_id_by_type)
            /\ IF r.fault # "none"
               THEN Abort(r.fault, "multi", endp)
               ELSE Iterate(endp, "single")
    /\ UNCHANGED <<test_entry_endpoints, valid, base_info, exit_code>>

\* for endp in self.test_entry_endpoints: self.test_single_entry_endpoint(endp)
TestSingleEntry(endp) ==
    /\ pc = "single"
    /\ endp \in todo
    /\ LET r == test_single_entry_endpoint(endp, test_id_by_type) IN
       /\ Count(r)
       /\ IF r.fault # "none"
          THEN Abort(r.fault, "single", endp)
          ELSE Iterate(endp, "set_valid")
    /\ UNCHANGED <<test_entry_endpoints, test_id_by_type, valid, base_info,
                   exit_code, server, requests, last_get, last_call, run_log>>

\* self.valid = not bool(self.failure_count)
validity(failures) == IF failures = 0 THEN "True" ELSE "False"

SetValid ==
    /\ pc = "set_valid"
    /\ valid' = validity(failure_count)
    /\ pc' = "returned"
    /\ UNCHANGED <<todo, test_entry_endpoints, test_id_by_type, success_count,
                   failure_count, base_info, fault, fault_at, exit_code, server,
                   requests, last_get, last_steps, wrapped_calls,
                   last_call, run_log>>

-----------------------------------------------------------------------------
(* __main__: the exit status once main() has returned or raised *)

\* an aborted run reported like a failed one
exit_status_no_fault(v) == IF v = "True" THEN 0 ELSE 1

exit_status(v) == IF v = "None" THEN 2 ELSE IF v = "False" THEN 1 ELSE 0

Exit ==
    /\ pc \in {"returned", "aborted"}
    /\ exit_code' = exit_status(valid)
    /\ pc' = "exited"
    /\ UNCHANGED <<todo, test_entry_endpoints, test_id_by_type, valid, success_count,
                   failure_count, base_info, fault, fault_at, server, requests,
                   last_get, last_steps, wrapped_calls,
                   last_call, run_log>>

Next ==
    \/ TestBaseInfo
    \/ GetAvailableEndpoints
    \/ \E endp \in TypeNames : TestEntryInfo(endp)
    \/ \E endp \in TypeNames : TestMultiEntry(endp)
    \/ \E endp \in TypeNames : TestSingleEntry(endp)
    \/ SetValid
    \/ Exit

Spec == Init /\ [][Next]_vars

-----------------------------------------------------------------------------
(* Client.get on its own: every script of the server against one call *)

Statuses == {200, 201, 301, 404, 500, 503}

GetInit ==
    /\ pc = "client_get"
    /\ todo = {}
    /\ test_entry_endpoints = REQUIRED_ENTRY_ENDPOINTS
    /\ test_id_by_type = <<>>
    /\ valid = "None"
    /\ success_count = 0
    /\ failure_count = 0
    /\ base_info = FalseVal
    /\ fault = "none"
    /\ fault_at = NoWhere
    /\ exit_code = -1
    /\ server = [p \in Paths |-> Unset]
    /\ requests = {}
    /\ \E throttle \in 0..MaxThrottle, raises \in BOOLEAN, status \in Statuses :
         last_get = [throttle |-> throttle, raises |-> raises, status |-> status,
                     result |-> NoGet.result]
    /\ last_steps = <<>>
    /\ wrapped_calls = 0
    /\ last_call = NoCall
    /\ run_log = <<>>

ClientGetCall ==
    /\ pc = "client_get"
    /\ last_get' = [last_get EXCEPT
                      !.result = Client_get(last_get.throttle, last_get.raises,
                                            last_get.status)]
    /\ pc' = "client_returned"
    /\ UNCHANGED <<todo, test_entry_endpoints, test_id_by_type, valid, success_count,
                   failure_count, base_info, fault, fault_at, exit_code, server,
                   requests, last_steps, wrapped_calls, last_call, run_log>>

GetNext == ClientGetCall

SpecGet == GetInit /\ [][GetNext]_vars

-----------------------------------------------------------------------------
(* test_case on its own: one wrapped step, whatever it does, called with   *)
(* the counters at any value                                               *)

\* exceptions a step may raise: the three the wrapper names, and others
StepErrors == RecognizedErrors
              \cup {"KeyError", "TypeError", "AttributeError", "NameError",
                    "JSONDecodeError", "RequestException"}

\* what a wrapped step may do: return a true or a false result, or raise
StepOuts == {Return(ResponseVal(NoBody), TRUE), Return(ModelVal(NoBody), TRUE),
             Return(FalseVal, FALSE)}
            \cup {Raise(e) : e \in StepErrors}

WrapInit ==
    /\ pc = "wrap_call"
    /\ todo = {}
    /\ test_entry_endpoints = REQUIRED_ENTRY_ENDPOINTS
    /\ test_id_by_type = <<>>
    /\ valid = "None"
    /\ success_count \in 0..MaxCount
    /\ failure_count \in 0..MaxCount
    /\ base_info = FalseVal
    /\ fault = "none"
    /\ fault_at = NoWhere
    /\ exit_code = -1
    /\ server = [p \in Paths |-> Unset]
    /\ requests = {}
    /\ last_get = NoGet
    /\ last_steps = <<>>
    /\ wrapped_calls = success_count + failure_count
    /\ \E out \in StepOuts : last_call = [out |-> out, result |-> FalseVal]
    /\ run_log = <<>>

\* wrapper(*args, **kwargs) around the step
WrapCall ==
    /\ pc = "wrap_call"
    /\ LET w == test_case(last_call.out) IN
       /\ last_call' = [last_call EXCEPT !.result = w.result]
       /\ Count(Outcome(w.result, <<Step("test_fn", w)>>, w.fault))
       /\ fault' = w.fault
       /\ pc' = IF w.fault # "none" THEN "aborted" ELSE "wrapped"
    /\ UNCHANGED <<todo, test_entry_endpoints, test_id_by_type, valid, base_info,
                   fault_at, exit_code, server, requests, last_get, run_log>>

WrapNext == WrapCall

SpecWrap == WrapInit /\ [][WrapNext]_vars

-----------------------------------------------------------------------------
(* __main__ run twice, each time in a new process on a new validator,      *)
(* against one server whose documents are fixed from the start             *)

\* the document such a server holds at `path`: 'info' lists `listed` in a
\* valid document; the endpoints of a type in `failing` answer 500, the
\* others 200 with a valid document, a listing with the entries `data`
ServedAt(path, listed, failing, data) ==
    IF path = <<BASE_INFO_ENDPOINT>>
    THEN [status |-> 200,
          body |-> [conforms |-> "InfoResponse", raw |-> "full",
                    hasjson |-> TRUE, types |-> listed, data |-> <<>>]]
    ELSE IF path[Len(path)] \in failing
    THEN [status |-> 500, body |-> NoBody]
    ELSE IF path \notin DOMAIN RESPONSE_CLASSES
    THEN [status |-> 200, body |-> UnreadBody]
    ELSE [status |-> 200,
          body |-> [conforms |-> RESPONSE_CLASSES[path], raw |-> "full",
                    hasjson |-> FALSE, types |-> {},
                    data |-> IF Len(path) = 1 THEN data ELSE <<>>]]

TwiceInit ==
    /\ pc = "base_info"
    /\ todo = {}
    /\ test_entry_endpoints = REQUIRED_ENTRY_ENDPOINTS
    /\ test_id_by_type = <<>>
    /\ valid = "None"
    /\ success_count = 0
    /\ failure_count = 0
    /\ base_info = FalseVal
    /\ fault = "none"
    /\ fault_at = NoWhere
    /\ exit_code = -1
    /\ \E listed \in SUBSET TypeNames, failing \in SUBSET TypeNames,
          data \in {<<>>, <<[type |-> "structures", id |-> "abc"]>>} :
         server = [p \in Paths |-> ServedAt(p, listed, failing, data)]
    /\ requests = {}
    /\ last_get = NoGet
    /\ last_steps = <<>>
    /\ wrapped_calls = 0
    /\ last_call = NoCall
    /\ run_log = <<>>

\* the process is over; the program is started again: a new process, a new
\* ImplementationValidator, the same server
Rerun ==
    /\ pc = "exited"
    /\ run_log = <<>>
    /\ run_log' = <<[success_count |-> success_count,
                     failure_count |-> failure_count, valid |-> valid]>>
    /\ pc' = "base_info"
    /\ todo' = {}
    /\ test_entry_endpoints' = REQUIRED_ENTRY_ENDPOINTS
    /\ test_id_by_type' = <<>>
    /\ valid' = "None"
    /\ success_count' = 0
    /\ failure_count' = 0
    /\ base_info' = FalseVal
    /\ fault' = "none"
    /\ fault_at' = NoWhere
    /\ exit_code' = -1
    /\ requests' = {}
    /\ last_steps' = <<>>
    /\ wrapped_calls' = 0
    /\ UNCHANGED <<server, last_get, last_call>>

TwiceNext ==
    \/ TestBaseInfo
    \/ GetAvailableEndpoints
    \/ \E endp \in TypeNames : TestEntryInfo(endp)
    \/ \E endp \in TypeNames : TestMultiEntry(endp)
    \/ \E endp \in TypeNames : TestSingleEntry(endp)
    \/ SetValid
    \/ Exit
    \/ Rerun

SpecTwice == TwiceInit /\ [][TwiceNext]_vars

-----------------------------------------------------------------------------
(* Properties *)

Request(stage, path) == [stage |-> stage, path |-> path]

\* main() has left the single-entry step for `type`, normally or by a fault
SingleEntryDone(type) ==
    \/ pc = "single" /\ type \in test_entry_endpoints \ todo
    \/ pc \in {"set_valid", "returned"}
    \/ pc = "exited" /\ fault = "none"
    \/ fault_at = [stage |-> "single", type |-> type]

\* C1: for every entry type with a registered id, the single-entry step issues
\* GET '<type>/<id>' with that id, and no fault escapes from the single-entry
\* stage, so that main() goes on to set the validity state.
C1_SingleEntryFetchesRegisteredId ==
    \A t \in TypeNames :
        (t \in DOMAIN test_id_by_type /\ SingleEntryDone(t))
        => /\ Request("single", <<t, test_id_by_type[t]>>) \in requests
           /\ fault_at.stage # "single"

\* the server answered the GET of 'info' with HTTP 500
InfoReturned500 == server[<<BASE_INFO_ENDPOINT>>].status = 500

\* C2: when 'info' returns HTTP 500, the base info test is a failure, the run
\* still requests 'info/structures' and 'structures', completes as invalid,
\* and the process exits with code 1.
C2_Info500ExitsOne ==
    (pc = "exited" /\ InfoReturned500)
    => /\ failure_count >= 1
       /\ Request("entry_info", <<BASE_INFO_ENDPOINT, "structures">>) \in requests
       /\ Request("multi", <<"structures">>) \in requests
       /\ valid = "False"
       /\ exit_code = 1

\* the server of scenario A: 'info' lists exactly ["structures"], every
\* document served is a 200 that conforms to its schema, and the listing of
\* 'structures' has the one entry (structures, abc)
ScenarioA ==
    /\ server[<<BASE_INFO_ENDPOINT>>] =
         [status |-> 200,
          body |-> [conforms |-> "InfoResponse", raw |-> "full", hasjson |-> TRUE,
                    types |-> {"structures"}, data |-> <<>>]]
    /\ server[<<BASE_INFO_ENDPOINT, "structures">>] =
         [status |-> 200,
          body |-> [conforms |-> "EntryInfoResponse", raw |-> "full",
                    hasjson |-> FALSE, types |-> {}, data |-> <<>>]]
    /\ server[<<"structures">>] =
         [status |-> 200,
          body |-> [conforms |-> "StructureResponseMany", raw |-> "full",
                    hasjson |-> FALSE, types |-> {},
                    data |-> <<[type |-> "structures", id |-> "abc"]>>]]

\* C3: against the server of scenario A a full run ends with 0 failures,
\* 4 successes, validity valid and exit code 0.
C3_ScenarioAFourSuccesses ==
    (pc = "exited" /\ ScenarioA)
    => /\ failure_count = 0
       /\ success_count = 4
       /\ valid = "True"
       /\ exit_code = 0

\* C4: the literal 'info' is never a member of the working entry-type set,
\* and no per-type stage is run for it.
C4_InfoNeverInWorkingSet ==
    /\ "info" \notin test_entry_endpoints
    /\ "info" \notin todo

StageIndex(p) ==
    CASE p \in {"base_info", "available"} -> 1
      [] p = "entry_info" -> 2
      [] p = "multi" -> 3
      [] p = "single" -> 4
      [] p = "set_valid" -> 5
      [] OTHER -> 6

\* a request has the shape of the stage that issued it
ShapeOfStage(r) ==
    CASE r.stage = "base_info" -> r.path = <<BASE_INFO_ENDPOINT>>
      [] r.stage = "entry_info" -> Len(r.path) = 2 /\ r.path[1] = BASE_INFO_ENDPOINT
      [] r.stage = "multi" -> Len(r.path) = 1
      [] r.stage = "single" -> Len(r.path) = 2 /\ r.path[1] # BASE_INFO_ENDPOINT
      [] OTHER -> FALSE

\* every request is issued by the stage main() is in, and no request of a
\* later stage has been issued before it
StageOrderStep ==
    /\ StageIndex(pc') >= StageIndex(pc)
    /\ \A r \in requests' \ requests :
         /\ r.stage = pc
         /\ ShapeOfStage(r)
         /\ \A q \in requests : StageIndex(q.stage) <= StageIndex(r.stage)

\* a single-entry request follows the listing that registered its id
SingleAfterListing ==
    \A r \in requests :
        r.stage = "single"
        => /\ r.path[1] \in DOMAIN test_id_by_type
           /\ Request("multi", <<r.path[1]>>) \in requests

\* C5: the stages run in the order base info, per-type info, multi-entry,
\* single-entry and none is revisited: each request is issued in its own
\* stage after every request of the earlier stages, and a single-entry
\* request only after a listing has registered an id for its type.
C5_StagesInOrder == [][StageOrderStep]_vars /\ []SingleAfterListing

C5_Witness ==
    /\ pc = "single"
    /\ Request("base_info", <<BASE_INFO_ENDPOINT>>) \in requests
    /\ Request("entry_info", <<BASE_INFO_ENDPOINT, "calculations">>) \in requests
    /\ Request("multi", <<"structures">>) \in requests
    /\ Request("multi", <<"calculations">>) \in requests

\* C6: N 429 answers and then a 200: with N < 5 get() returns the 200 after
\* N+1 attempts and N sleeps; with N >= 5 it raises ResponseError after 5
\* attempts, never a 6th; any status other than 429 comes back unmodified
\* on the attempt that receives it.
C6_RetryBound ==
    pc = "client_returned"
    => LET N == last_get.throttle
           r == last_get.result
       IN /\ (N < 5 /\ ~last_get.raises)
             => /\ r.kind = "return"
                /\ r.status = last_get.status
                /\ r.attempts = N + 1
                /\ r.sleeps = N
          /\ N >= 5
             => /\ r.kind = "raise"
                /\ r.exc = "ResponseError"
                /\ r.attempts = 5

C6_Witness ==
    /\ pc = "client_returned"
    /\ last_get.throttle = 4
    /\ last_get.status = 200
    /\ last_get.result.kind = "return"
    /\ last_get.result.attempts = 5

ValidityAndExit ==
    /\ valid # "None" => /\ pc \in {"returned", "exited"}
                         /\ fault = "none"
                         /\ (valid = "True") = (failure_count = 0)
    /\ pc = "returned" => valid # "None"
    /\ fault # "none" => valid = "None"
    /\ exit_code # -1
       => /\ (exit_code = 0) = (fault = "none" /\ failure_count = 0)
          /\ (exit_code = 1) = (fault = "none" /\ failure_count > 0)
          /\ (exit_code = 2) = (fault # "none")

\* validity is assigned once, by the last statement of main()
ValidAssignedOnce ==
    /\ valid # "None" => valid' = valid
    /\ valid' # valid => pc = "set_valid" /\ todo = {}

\* C8: validity is None until main() has run all four stages and is assigned
\* exactly once, as (failure count = 0); the exit code is 0 iff main()
\* completed with no failure, 1 iff it completed with a failure, 2 iff an
\* exception aborted it, whatever the counters hold.
C8_ValidityAndExitCode == []ValidityAndExit /\ [][ValidAssignedOnce]_vars

C8_Witness ==
    /\ exit_code = 1
    /\ valid = "False"
    /\ failure_count > 0
    /\ success_count > 0

\* after get_available_endpoints, a valid base info document with a
\* non-empty list has its list united with the baseline
UnionWithBaseline ==
    /\ REQUIRED_ENTRY_ENDPOINTS \subseteq test_entry_endpoints
    /\ (/\ pc \notin {"base_info", "available"}
        /\ fault_at.stage # "available"
        /\ base_info.tag = "Model"
        /\ base_info.body.hasjson
        /\ base_info.body.types # {})
       => test_entry_endpoints = REQUIRED_ENTRY_ENDPOINTS \cup base_info.body.types

\* C9: for a 200, schema-valid base info document with a non-empty list L the
\* working set after get_available_endpoints is {'structures'} united with L;
\* the working set only grows and always contains the baseline.
C9_WorkingSetIsBaselineUnionList ==
    []UnionWithBaseline /\ [][test_entry_endpoints \subseteq test_entry_endpoints']_vars

C9_Witness ==
    /\ pc = "entry_info"
    /\ base_info.tag = "Model"
    /\ base_info.body.types = {"calculations"}
    /\ test_entry_endpoints = {"structures", "calculations"}

\* the listing of `type` was fetched with a 200, validated against the
\* many-entries schema and holds at least one entry
ListedWithEntries(type) ==
    /\ Request("multi", <<type>>) \in requests
    /\ <<type>> \in DOMAIN RESPONSE_CLASSES
    /\ server[<<type>>].status = 200
    /\ server[<<type>>].body.conforms = RESPONSE_CLASSES[<<type>>]
    /\ RESPONSE_CLASSES[<<type>>] = "StructureResponseMany"
    /\ Len(server[<<type>>].body.data) > 0

\* C10: after the multi-entry step of an entry type whose listing validated
\* with at least one entry, the registry holds an entry for that type and
\* its value is the id of the first listed entry.
C10_RegistryKeyedByRequestedType ==
    \A t \in TypeNames :
        ListedWithEntries(t)
        => /\ t \in DOMAIN test_id_by_type
           /\ test_id_by_type[t] = server[<<t>>].body.data[1].id

\* the wrapped step `name` was called by the statement and counted as a failure
CountedFailure(steps, name) ==
    \E i \in 1..Len(steps) :
        steps[i].name = name /\ steps[i].fault = "none" /\ steps[i].ds = 0

\* C11: whenever the ID-scrape step of a listing is counted as a failure (the
\* listing has zero entries or could not be validated among the cases), the
\* failure counter goes up by exactly one for it and the registry is left
\* as it was.
C11_FailedScrapeLeavesRegistry ==
    [][(pc = "multi"
        /\ CountedFailure(last_steps', "get_single_id_from_multi_endpoint"))
       => /\ test_id_by_type' = test_id_by_type
          /\ \A i \in 1..Len(last_steps') :
               last_steps'[i].name = "get_single_id_from_multi_endpoint"
               => last_steps'[i].df = 1]_vars

\* the type whose iteration of the current loop this step is
Visited == IF fault' # "none" THEN {fault_at'.type} ELSE todo \ todo'

\* the single-entry step of a type without a registered id changes nothing
SkippedWhenAbsent ==
    pc = "single"
    => \A t \in Visited :
           t \notin DOMAIN test_id_by_type
           => /\ requests' = requests
              /\ success_count' = success_count
              /\ failure_count' = failure_count
              /\ test_id_by_type' = test_id_by_type
              /\ test_entry_endpoints' = test_entry_endpoints
              /\ fault' = "none"

\* the server of scenario C: that of scenario A, its listing of 'structures'
\* valid with an empty data array
ScenarioC ==
    /\ server[<<BASE_INFO_ENDPOINT>>] =
         [status |-> 200,
          body |-> [conforms |-> "InfoResponse", raw |-> "full", hasjson |-> TRUE,
                    types |-> {"structures"}, data |-> <<>>]]
    /\ server[<<BASE_INFO_ENDPOINT, "structures">>] =
         [status |-> 200,
          body |-> [conforms |-> "EntryInfoResponse", raw |-> "full",
                    hasjson |-> FALSE, types |-> {}, data |-> <<>>]]
    /\ server[<<"structures">>] =
         [status |-> 200,
          body |-> [conforms |-> "StructureResponseMany", raw |-> "full",
                    hasjson |-> FALSE, types |-> {}, data |-> <<>>]]

\* against the server of scenario C the ID-scrape failure is the only one
EmptyListingExitsOne ==
    (pc = "exited" /\ ScenarioC)
    => /\ failure_count = 1
       /\ "structures" \notin DOMAIN test_id_by_type
       /\ Request("single", <<"structures", "">>) \notin requests
       /\ fault = "none"
       /\ exit_code = 1

\* C12: for an entry type absent from the registry the single-entry step
\* issues no request and leaves both counters, the registry and the working
\* set unchanged; against a server whose listing has an empty data array the
\* ID-scrape failure is the only failure and the run exits with code 1.
C12_AbsentTypeSkipped == [][SkippedWhenAbsent]_vars /\ []EmptyListingExitsOne

C12_Witness ==
    /\ pc = "exited"
    /\ ScenarioC
    /\ test_id_by_type = <<>>
    /\ failure_count = 1
    /\ exit_code = 1

\* C13: a GET whose request itself fails (requests.get raises) is counted as
\* one test failure by the wrapper, and no exception leaves main() for it.
C13_RequestExceptionCounted ==
    \A p \in Paths :
        server[p] = Down => /\ failure_count >= 1
                            /\ fault # "RequestException"

\* every answer the server gave is a status code with, on a 200, a JSON body:
\* the failures it caused are non-200 statuses, exhausted retries and bodies
\* that fail schema validation
OnlyRecoverableFailures ==
    \A p \in Paths : server[p] # Down /\ server[p].body.raw # "notjson"

\* C14: whatever non-200 statuses, exhausted retries and schema-validation
\* failures the server returns, main() issues 'info/<t>' and '<t>' for every
\* type t of the working set and reaches the assignment of validity.
C14_NoEarlyExit ==
    (pc = "exited" /\ OnlyRecoverableFailures)
    => /\ valid # "None"
       /\ \A t \in test_entry_endpoints :
            /\ Request("entry_info", <<BASE_INFO_ENDPOINT, t>>) \in requests
            /\ Request("multi", <<t>>) \in requests

\* what the wrapper does with the step it is called on
WrapperClassifies ==
    pc = "wrap_call"
    => LET out == last_call.out IN
       /\ (out.kind = "raise" /\ out.exc \in {"ResponseError", "ValidationError",
                                             "ManualValidationError"})
          => /\ pc' = "wrapped"
             /\ ~Truthy(last_call'.result)
             /\ failure_count' = failure_count + 1
             /\ success_count' = success_count
             /\ fault' = "none"
       /\ (out.kind = "raise" /\ out.exc \notin {"ResponseError", "ValidationError",
                                                "ManualValidationError"})
          => /\ pc' = "aborted"
             /\ failure_count' = failure_count
             /\ success_count' = success_count
             /\ fault' = out.exc

\* C15: a wrapped step that raises a response (retry-exhausted) error, a
\* schema-validation error or a manual-validation error makes the wrapper
\* return a false result and add exactly one to the failure counter, the
\* success counter untouched; any other exception is not caught, changes
\* neither counter and propagates to the caller.
C15_WrapperClassification == [][WrapperClassifies]_vars

C15_Witness ==
    /\ pc = "aborted"
    /\ last_call.out = Raise("KeyError")
    /\ fault = "KeyError"
    /\ success_count = 2
    /\ failure_count = 1

\* get_available_endpoints has been called on a 200 answer of 'info' whose
\* body failed schema validation
FellBackToRawJson ==
    /\ pc \notin {"base_info", "available"}
    /\ base_info.tag = "Response"

\* C16: when 'info' returns 200 and its body fails schema validation the run
\* is not aborted: the list found in the raw JSON is united with the working
\* set, and when the raw JSON yields no list (keys missing, wrong types, an
\* empty body) the discovery step is a counted failure, the working set stays
\* the baseline and the remaining stages run.
C16_BaseInfoFallback ==
    FellBackToRawJson
    => /\ fault_at.stage # "available"
       /\ IF base_info.body.raw = "full"
          THEN test_entry_endpoints =
                   REQUIRED_ENTRY_ENDPOINTS \cup base_info.body.types
          ELSE /\ test_entry_endpoints = REQUIRED_ENTRY_ENDPOINTS
               /\ failure_count >= 2

\* C17: two full runs on freshly constructed validators against the same
\* deterministic server end with the same success count, failure count and
\* validity, whatever order each run iterates the working set in.
C17_RunsAgree ==
    (pc = "exited" /\ run_log # <<>>)
    => run_log[1] = [success_count |-> success_count,
                     failure_count |-> failure_count, valid |-> valid]

\* the counters are never negative, add up to the wrapped step calls the
\* wrapper has returned from, and decide validity
CountersInv ==
    /\ success_count >= 0
    /\ failure_count >= 0
    /\ pc = "base_info" => success_count = 0 /\ failure_count = 0
    /\ success_count + failure_count = wrapped_calls
    /\ valid # "None" => (valid = "True") = (failure_count = 0)

\* the counters only grow, only in a statement that calls wrapped steps, and
\* by one count for each step the wrapper returned from
CountersStep ==
    /\ success_count' >= success_count
    /\ failure_count' >= failure_count
    /\ (success_count' # success_count \/ failure_count' # failure_count)
       => /\ pc \in {"base_info", "available", "entry_info", "multi", "single"}
          /\ last_steps' # <<>>
    /\ (success_count' - success_count) + (failure_count' - failure_count)
           = wrapped_calls' - wrapped_calls
    /\ \A i \in 1..Len(last_steps') :
           IF last_steps'[i].fault = "none"
           THEN last_steps'[i].ds + last_steps'[i].df = 1
           ELSE last_steps'[i].ds = 0 /\ last_steps'[i].df = 0

\* C18: both counters start at 0, never decrease and change only in the
\* wrapper; each wrapped step that returns or raises a recognized error adds
\* exactly one to exactly one of them, so their sum is the number of wrapped
\* steps completed, and the validity assigned equals (failure count = 0).
C18_Counters == []CountersInv /\ [][CountersStep]_vars

C18_Witness ==
    /\ valid = "False"
    /\ wrapped_calls = 8
    /\ success_count = 7
    /\ failure_count = 1

\* the statement's request was counted as a failure by get_endpoint
RequestFailed(steps) ==
    /\ steps # <<>>
    /\ steps[1].name = "get_endpoint"
    /\ steps[1].fault = "none"
    /\ steps[1].df = 1

\* what follows a failed request in the stage main() is in
AfterFailedRequest ==
    /\ (pc = "multi" /\ RequestFailed(last_steps'))
       => /\ Len(last_steps') = 3
          /\ last_steps'[2].name = "serialize_attempt"
          /\ last_steps'[2].df = 1
          /\ last_steps'[3].name = "get_single_id_from_multi_endpoint"
          /\ last_steps'[3].df = 1
          /\ failure_count' = failure_count + 3
    /\ (pc \in {"base_info", "entry_info"} /\ RequestFailed(last_steps'))
       => /\ Len(last_steps') = 1
          /\ failure_count' = failure_count + 1

\* C19: in the multi-entry stage a failed listing request is still passed to
\* schema validation and to the ID scrape, each counted as its own failure
\* (three failures for the type); in the base-info and per-type-info stages a
\* failed request is counted once and schema validation is not attempted.
C19_ShortCircuitAsymmetry == [][AfterFailedRequest]_vars

\* get_available_endpoints has been called on a valid base info document
\* that yields no JSON entry types
NoJsonEntryTypes ==
    /\ pc \notin {"base_info", "available"}
    /\ base_info.tag = "Model"
    /\ (~base_info.body.hasjson \/ base_info.body.types = {})

\* C20: when the base info document yields no JSON entry types (the 'json'
\* list is empty, or no 'json' format is registered), get_available_endpoints
\* is one counted failure, the working set stays the baseline and main() goes
\* on to the per-type info stage.
C20_NoJsonTypesCountedOnce ==
    NoJsonEntryTypes
    => /\ fault_at.stage # "available"
       /\ test_entry_endpoints = REQUIRED_ENTRY_ENDPOINTS
       /\ failure_count >= 1
       /\ Request("entry_info", <<BASE_INFO_ENDPOINT, "structures">>) \in requests
          \/ pc = "entry_info"

====
